---- MODULE Spec2Model ----
(***************************************************************************)
(* A model of procore_document_downloader.py: the authenticated request    *)
(* client (api_request), the recursive tree walker (process_folder), the   *)
(* per-file download step (download_file) and the driver around them       *)
(* (download_project_documents, main, __main__).                           *)
(*                                                                         *)
(* Strings are sequences of tokens; the path separator "/" is a token of   *)
(* its own, so that os.path.join can be modelled by what it does.          *)
(***************************************************************************)
EXTENDS Integers, Sequences, FiniteSets, TLC

VARIABLES
    pc,             \* where main is
    proj,           \* the index of the project being downloaded
    req,            \* the request the client has issued and not yet had answered
    stack,          \* the frames of process_folder, the innermost last
    download_stats, \* the global counters
    exitCode,       \* the code sys.exit was called with
    ev,             \* the step just taken: what it read and what it did
    n429,           \* 429 responses given so far
    flagged,        \* folder ids a listing of this project flagged deleted or recycle-bin
    failed,         \* folder ids whose listing fetch failed in this project
    listed,         \* per folder id: listings received in this project
    got,            \* per folder id and index in its listing: calls of download_file
    calls,          \* calls of download_file completed in this project
    started,        \* calls of process_folder made for subfolder entries in this project
    closed          \* folder ids whose call of process_folder is over in this project

vars ==
    <<pc, proj, req, stack, download_stats, exitCode, ev, n429, flagged, failed, listed,
      got, calls, started, closed>>

hist == <<flagged, failed, listed, got, calls, started, closed>>

----------------------------------------------------------------------------
(* Bounds of the model.                                                    *)

\* files in the listing of a root folder
MaxFiles == 2
\* 429 responses the remote gives in one run
Max429 == 2
\* projects selected by the user
NumProjects == 2

----------------------------------------------------------------------------
(* Values of the remote's JSON and of HTTP headers.                        *)

\* a key a dict does not hold, a header a response does not carry
None == [has |-> FALSE]

Some(v) == [has |-> TRUE, val |-> v]

\* the default of response.headers.get('Retry-After', 60)
DefaultRetryAfter == 60

Digits == <<"0", "1", "2", "3", "4", "5", "6", "7", "8", "9">>

IsDigit(c) == \E i \in 1..Len(Digits) : Digits[i] = c

DigitValue(c) == (CHOOSE i \in 1..Len(Digits) : Digits[i] = c) - 1

\* what int() gives when it raises
ValueError == None

RECURSIVE ParseDigits(_, _)
\* the value of a run of decimal digits, ValueError at the first other character
ParseDigits(s, acc) ==
    IF s = <<>> THEN Some(acc)
    ELSE IF IsDigit(Head(s))
         THEN ParseDigits(Tail(s), Len(Digits) * acc + DigitValue(Head(s)))
         ELSE ValueError

\* Python's int(str): an optional sign, then one or more decimal digits
PyInt(s) ==
    IF s = <<>> THEN ValueError
    ELSE IF Head(s) \in {"-", "+"}
         THEN IF Tail(s) = <<>> THEN ValueError
              ELSE LET v == ParseDigits(Tail(s), 0)
                   IN  IF ~v.has THEN ValueError
                       ELSE IF Head(s) = "-" THEN Some(0 - v.val) ELSE v
         ELSE ParseDigits(s, 0)

\* int(response.headers.get('Retry-After', 60))
RetryAfter(h) == IF h.has THEN PyInt(h.val) ELSE Some(DefaultRetryAfter)

\* time.sleep(retry_after) is reached and returns: int() did not raise, and
\* the delay is not negative (time.sleep raises ValueError for one)
CanSleep(h) == RetryAfter(h).has /\ RetryAfter(h).val >= 0

\* the seconds slept on a 429 with header h, None when nothing was slept
Slept(h) == IF CanSleep(h) THEN RetryAfter(h) ELSE None

\* the Retry-After headers the remote sends: none, delay-seconds, a negative
\* number, an HTTP-date (RFC 7231 allows a date)
RetryAfterHeaders ==
    { None, Some(<<"0">>), Some(<<"3", "0">>), Some(<<"-", "1">>),
      Some(<<"W", "e", "d", ",", " ", "2", "1">>) }

----------------------------------------------------------------------------
(* Paths: os.path.join (posixpath).                                        *)

Sep == "/"

\* one step of os.path.join's loop: a component starting with the separator
\* replaces what was joined so far; after an empty path or a trailing
\* separator the component is appended bare; otherwise separator + component
JoinStep(path, b) ==
    IF b # <<>> /\ Head(b) = Sep THEN b
    ELSE IF path = <<>> \/ path[Len(path)] = Sep THEN path \o b
    ELSE path \o <<Sep>> \o b

RECURSIVE JoinFrom(_, _)
JoinFrom(path, ps) ==
    IF ps = <<>> THEN path ELSE JoinFrom(JoinStep(path, Head(ps)), Tail(ps))

\* os.path.join(a, *ps)
PathJoin(a, ps) == JoinFrom(a, ps)

\* os.path.join(base_path, folder_path, file_name)
LocalFilePath(base_path, folder_path, file_name) ==
    PathJoin(base_path, <<folder_path, file_name>>)

\* os.path.join(folder_path, subfolder_name) if folder_path else subfolder_name
NewFolderPath(folder_path, subfolder_name) ==
    IF folder_path # <<>> THEN PathJoin(folder_path, <<subfolder_name>>)
    ELSE subfolder_name

\* os.path.join(base_path, new_folder_path)
LocalFolderPath(base_path, new_folder_path) == PathJoin(base_path, <<new_folder_path>>)

RECURSIVE ReplaceSep(_)
\* project_name.replace('/', '_')
ReplaceSep(s) ==
    IF s = <<>> THEN <<>>
    ELSE <<IF Head(s) = Sep THEN "_" ELSE Head(s)>> \o ReplaceSep(Tail(s))

\* os.getcwd()
Cwd == <<Sep, "home">>

\* the names of the projects the user selected
ProjectNames == [i \in 1..NumProjects |-> IF i % 2 = 1 THEN <<"P", Sep, "Q">> ELSE <<"R">>]

\* os.path.join(os.getcwd(), 'procore_downloads', project_name.replace('/', '_'))
BasePath(i) == PathJoin(Cwd, <<<<"procore_downloads">>, ReplaceSep(ProjectNames[i])>>)

----------------------------------------------------------------------------
(* The remote. Folder ids and the shape of each project's tree are fixed;  *)
(* what a listing says of each entry (names, flags, versions) is the       *)
(* remote's choice, drawn when the walker reads the entry. The first       *)
(* project is a tree two levels deep whose files come in a few kinds; the  *)
(* other projects hold files in the root and no folders, the second one    *)
(* files of every kind.                                                    *)

\* folder_id None: the project's document root
RootId == 0

FolderIds == {RootId, 1, 2, 3}

IsDeep(project) == project = 1

\* the second project holds files of every kind
IsRich(project) == project = 2

\* the most files the listing of folder id holds: one below the root
FileCap(id) == IF id = RootId THEN MaxFiles ELSE 1

\* the ids of data['folders'] of a folder, in listing order
Children(project, id) ==
    IF ~IsDeep(project) THEN <<>>
    ELSE IF id = RootId THEN <<1, 2>>
    ELSE IF id = 1 THEN <<3>>
    ELSE <<>>

\* the folder whose listing holds id
Parent(id) == IF id = 3 THEN 1 ELSE RootId

RECURSIVE Ancestors(_)
\* id and the folders above it, the root left out
Ancestors(id) == IF id = RootId THEN {} ELSE {id} \cup Ancestors(Parent(id))

\* names of files and folders: plain ones, and ones starting with a separator
FileNames == { <<"f">>, <<Sep, "f">> }

FolderNames == { <<"a">>, <<Sep, "a">> }

\* file['file_versions'][k]: 'number' and 'url' may each be missing, 'url'
\* may be empty; u is the URL the remote signed for this version
VersionsAt(numbers, u) ==
    [number : {None} \cup {Some(n) : n \in numbers}, url : {None, Some(<<>>), Some(u)}]

Url1 == <<"https://s/v1">>

Url2 == <<"https://s/v2">>

\* file['file_versions']: missing, empty, one version or two
VersionLists ==
    {None, Some(<<>>)}
        \cup {Some(<<v>>) : v \in VersionsAt({0, 1}, Url1)}
        \cup {Some(<<v, w>>) : v \in VersionsAt({0, 1}, Url1), w \in VersionsAt({0, 1}, Url2)}

\* a few kinds of version list: empty, one version, a latest without a URL
FewVersionLists ==
    { Some(<<>>),
      Some(<<[number |-> Some(1), url |-> Some(Url1)]>>),
      Some(<<[number |-> Some(1), url |-> Some(Url1)], [number |-> Some(2), url |-> None]>>) }

\* the file entries a listing of the project may hold
FileEntries(project) ==
    IF IsRich(project)
    THEN [name : {<<"f">>}, is_deleted : BOOLEAN, file_versions : VersionLists]
    ELSE [name : FileNames, is_deleted : BOOLEAN, file_versions : FewVersionLists]

\* the entry a listing holds for subfolder id
FolderEntries(id) ==
    [id : {id}, name : FolderNames, is_deleted : BOOLEAN, is_recycle_bin : BOOLEAN]

\* v.get('number', 0)
VersionKey(v) == IF v.number.has THEN v.number.val ELSE 0

RECURSIVE MaxFrom(_, _, _)
\* Python's max(iterable, key=...): the first element with the greatest key
MaxFrom(vs, i, best) ==
    IF i > Len(vs) THEN best
    ELSE MaxFrom(vs, i + 1, IF VersionKey(vs[i]) > VersionKey(vs[best]) THEN i ELSE best)

RECURSIVE MaxFromLast(_, _, _)
MaxFromLast(vs, i, best) ==
    IF i > Len(vs) THEN best
    ELSE MaxFromLast(vs, i + 1, IF VersionKey(vs[i]) >= VersionKey(vs[best]) THEN i ELSE best)

\* a max that keeps the last of the versions with the greatest number
LatestVersionLast(vs) == MaxFromLast(vs, 2, 1)

\* the index of max(file['file_versions'], key=lambda v: v.get('number', 0))
LatestVersion(vs) == MaxFrom(vs, 2, 1)

\* a walker that does not look at is_deleted
FileSkippedNever(file) == FALSE

\* file.get('is_deleted', False)
FileSkipped(file) == file.is_deleted

\* file.get('file_versions') and len(file['file_versions']) > 0
HasVersions(file) == file.file_versions.has /\ Len(file.file_versions.val) > 0

\* a walker that takes an empty URL for a URL
HasUrlKey(v) == v.url.has

\* 'url' in latest_version and latest_version['url']
HasUrl(v) == v.url.has /\ v.url.val # <<>>

\* a walker that forgets the recycle bin
FolderPrunedDeletedOnly(subfolder) == subfolder.is_deleted

\* subfolder.get('is_deleted', False) or subfolder.get('is_recycle_bin', False)
FolderPruned(subfolder) == subfolder.is_deleted \/ subfolder.is_recycle_bin

\* the URL process_folder downloads a file entry from, None when it skips it
DownloadUrl(file) ==
    IF FileSkipped(file) THEN None
    ELSE IF ~HasVersions(file) THEN None
    ELSE LET latest_version == file.file_versions.val[LatestVersion(file.file_versions.val)]
         IN  IF HasUrl(latest_version) THEN Some(latest_version.url.val) ELSE None

\* what download_file meets: success, a non-success status of the download
\* request (a 429 here), or an OSError from makedirs, open or write
DownloadOutcomes == {"ok", "HTTPError 429", "OSError"}

\* download_file(url, local_path): True, or False for any Exception
DownloadFile(outcome) == outcome = "ok"

\* a walker that counts every call as a download
CountDownloadAlways(stats, ok) == [stats EXCEPT !.files_downloaded = @ + 1]

\* the counters after a call of download_file
CountDownload(stats, ok) ==
    IF ok THEN [stats EXCEPT !.files_downloaded = @ + 1]
    ELSE [stats EXCEPT !.errors = @ + 1]

----------------------------------------------------------------------------
(* The state.                                                              *)

ZeroStats == [files_downloaded |-> 0, folders_created |-> 0, errors |-> 0]

\* no entry of any listing has been handed to download_file
NoCalls == [id \in FolderIds |-> [i \in 1..MaxFiles |-> 0]]

NoHistory ==
    /\ flagged = {}
    /\ failed = {}
    /\ listed = [id \in FolderIds |-> 0]
    /\ got = NoCalls
    /\ calls = 0
    /\ started = 0
    /\ closed = {}

\* the request for a folder's listing: '/folders/{folder_id}', or '/folders'
\* for the root, with params {'project_id': project_id}
FolderRequest(folder_id, project_id) ==
    [endpoint |-> IF folder_id # RootId THEN <<"/folders", folder_id>> ELSE <<"/folders">>,
     params |-> <<"project_id", project_id>>]

\* api_request('/companies') and api_request('/projects', {'company_id': ...})
CompaniesRequest == [endpoint |-> <<"/companies">>, params |-> <<>>]

ProjectsRequest == [endpoint |-> <<"/projects">>, params |-> <<"company_id">>]

NoRequest == [endpoint |-> <<>>, params |-> <<>>]

\* a call of process_folder(folder_id, ..., base_path, folder_path); names is
\* the subfolder names read on the way down from the root
Frame(folder_id, base_path, folder_path, names) ==
    [folder_id |-> folder_id, base_path |-> base_path, folder_path |-> folder_path,
     names |-> names, phase |-> "fetch", nfiles |-> 0, fi |-> 1, si |-> 1]

Top == stack[Len(stack)]

Pop == SubSeq(stack, 1, Len(stack) - 1)

SetTop(f) == [stack EXCEPT ![Len(stack)] = f]

\* the folder whose walk is over when the innermost call returns: none when
\* the caller is the same folder's call waiting for its retry to return
Closing ==
    IF Len(stack) > 1 /\ stack[Len(stack) - 1].folder_id = Top.folder_id
    THEN {}
    ELSE {Top.folder_id}

Init ==
    /\ pc = "auth"
    /\ proj = 1
    /\ req = NoRequest
    /\ stack = <<>>
    /\ download_stats = ZeroStats
    /\ exitCode = 0
    /\ ev = [op |-> "init"]
    /\ n429 = 0
    /\ NoHistory

----------------------------------------------------------------------------
(* main, up to the walk.                                                   *)

\* sys.exit(code), and an exception reaching __main__'s handler:
\* "except Exception: ... sys.exit(1)". Every frame is unwound.
Exit(code) ==
    /\ pc' = "exit"
    /\ exitCode' = code
    /\ stack' = <<>>
    /\ req' = NoRequest

\* get_oauth_token: the token endpoint answers 200, or anything else
GetOAuthToken ==
    /\ pc = "auth"
    /\ \E ok \in BOOLEAN :
        /\ ev' = [op |-> "auth", ok |-> ok]
        /\ IF ok
           THEN /\ pc' = "company"
                /\ req' = CompaniesRequest
                /\ UNCHANGED <<stack, exitCode>>
           ELSE Exit(1)
    /\ UNCHANGED <<proj, download_stats, n429, hist>>

\* api_request answered 429: wait, then "return api_request(endpoint, params)"
ApiRateLimited ==
    /\ pc \in {"company", "projects"}
    /\ n429 < Max429
    /\ \E h \in RetryAfterHeaders :
        /\ ev' = [op |-> "api_429", header |-> h, request |-> req, slept |-> Slept(h)]
        /\ IF CanSleep(h)
           THEN /\ req' = req
                /\ UNCHANGED <<pc, stack, exitCode>>
           ELSE Exit(1)
    /\ n429' = n429 + 1
    /\ UNCHANGED <<proj, download_stats, hist>>

\* api_request caught a RequestException and returned None, or returned an
\* empty list: select_company and select_project call sys.exit(1)
ApiNothing ==
    /\ pc \in {"company", "projects"}
    /\ \E what \in {"RequestException", "empty"} :
        ev' = [op |-> "api_nothing", what |-> what, request |-> req]
    /\ Exit(1)
    /\ UNCHANGED <<proj, download_stats, n429, hist>>

\* api_request returned the list and the user chose from it
ApiOk ==
    /\ pc \in {"company", "projects"}
    /\ ev' = [op |-> "api_ok", request |-> req]
    /\ pc' = IF pc = "company" THEN "projects" ELSE "start"
    /\ req' = IF pc = "company" THEN ProjectsRequest ELSE NoRequest
    /\ UNCHANGED <<proj, stack, download_stats, exitCode, n429, hist>>

\* a download_project_documents that lacks the reset of the counters: they
\* carry over from the project before
StartProjectNoReset ==
    /\ pc = "start"
    /\ \E made \in BOOLEAN :
        /\ ev' = [op |-> "start", made |-> made, path |-> BasePath(proj)]
        /\ IF made
           THEN /\ pc' = "walk"
                /\ stack' = <<Frame(RootId, BasePath(proj), <<>>, <<>>)>>
                /\ req' = FolderRequest(RootId, proj)
                /\ UNCHANGED exitCode
           ELSE Exit(1)
    /\ UNCHANGED download_stats
    /\ flagged' = {}
    /\ failed' = {}
    /\ listed' = [id \in FolderIds |-> 0]
    /\ got' = NoCalls
    /\ calls' = 0
    /\ started' = 0
    /\ closed' = {}
    /\ UNCHANGED <<proj, n429>>

\* download_project_documents up to its call process_folder(None, ...): the
\* counters are reset and the base directory is made
StartProject ==
    /\ pc = "start"
    /\ \E made \in BOOLEAN :
        /\ ev' = [op |-> "start", made |-> made, path |-> BasePath(proj)]
        /\ IF made
           THEN /\ pc' = "walk"
                /\ stack' = <<Frame(RootId, BasePath(proj), <<>>, <<>>)>>
                /\ req' = FolderRequest(RootId, proj)
                /\ UNCHANGED exitCode
           ELSE Exit(1)
    /\ download_stats' = ZeroStats
    /\ flagged' = {}
    /\ failed' = {}
    /\ listed' = [id \in FolderIds |-> 0]
    /\ got' = NoCalls
    /\ calls' = 0
    /\ started' = 0
    /\ closed' = {}
    /\ UNCHANGED <<proj, n429>>

\* process_folder(None, ...) returned: the summary of the project, then
\* main's loop goes to the next project or to the final summary
FinishProject ==
    /\ pc = "walk"
    /\ stack = <<>>
    /\ ev' = [op |-> "finish", project |-> proj]
    /\ IF proj < NumProjects
       THEN /\ proj' = proj + 1
            /\ pc' = "start"
       ELSE /\ pc' = "summary"
            /\ UNCHANGED proj
    /\ UNCHANGED <<req, stack, download_stats, exitCode, n429, hist>>

----------------------------------------------------------------------------
(* process_folder.                                                         *)

Walking == pc = "walk" /\ stack # <<>>

Fetching == Walking /\ Top.phase = "fetch"

\* the statuses raise_for_status raises for (0: no response at all, a
\* transport error); each is a RequestException
ErrorStatuses == {0, 404, 500}

\* the listing request is answered 429: wait, then
\* "return process_folder(folder_id, company_id, project_id, base_path, folder_path)"
FetchRateLimited ==
    /\ Fetching
    /\ n429 < Max429
    /\ \E h \in RetryAfterHeaders :
        /\ ev' = [op |-> "fetch_429", header |-> h, request |-> req, slept |-> Slept(h),
                  folder |-> Top.folder_id]
        /\ IF CanSleep(h)
           THEN /\ stack' = Append(SetTop([Top EXCEPT !.phase = "retry"]),
                                   Frame(Top.folder_id, Top.base_path, Top.folder_path,
                                         Top.names))
                /\ req' = FolderRequest(Top.folder_id, proj)
                /\ UNCHANGED <<pc, exitCode>>
           ELSE Exit(1)
    /\ n429' = n429 + 1
    /\ UNCHANGED <<proj, download_stats, hist>>

\* a walker whose handler of the RequestException lacks its return
FetchFailedFallsThrough ==
    /\ Fetching
    /\ \E status \in ErrorStatuses :
        ev' = [op |-> "fetch_error", status |-> status, request |-> req,
               folder |-> Top.folder_id]
    /\ stack' = SetTop([Top EXCEPT !.phase = "body", !.nfiles = FileCap(Top.folder_id)])
    /\ req' = NoRequest
    /\ failed' = failed \cup {Top.folder_id}
    /\ UNCHANGED <<pc, proj, download_stats, exitCode, n429, flagged, listed, got, calls,
                   started, closed>>

\* the listing request fails with a RequestException: log and return
FetchFailed ==
    /\ Fetching
    /\ \E status \in ErrorStatuses :
        ev' = [op |-> "fetch_error", status |-> status, request |-> req,
               folder |-> Top.folder_id]
    /\ stack' = Pop
    /\ req' = NoRequest
    /\ failed' = failed \cup {Top.folder_id}
    /\ closed' = closed \cup Closing
    /\ UNCHANGED <<pc, proj, download_stats, exitCode, n429, flagged, listed, got, calls,
                   started>>

\* the listing arrives: data['files'] holds n entries ('files' missing or
\* empty: none), data['folders'] the folder's children
FetchOk ==
    /\ Fetching
    /\ \E n \in 0..FileCap(Top.folder_id) :
        /\ ev' = [op |-> "fetch_ok", nfiles |-> n, request |-> req, folder |-> Top.folder_id]
        /\ stack' = SetTop([Top EXCEPT !.phase = "body", !.nfiles = n])
    /\ req' = NoRequest
    /\ listed' = [listed EXCEPT ![Top.folder_id] = @ + 1]
    /\ UNCHANGED <<pc, proj, download_stats, exitCode, n429, flagged, failed, got, calls,
                   started, closed>>

\* a walker that calls process_folder again after a 429 without "return":
\* when the retry is over it goes on to the loops itself
ReturnRetryGoesOn ==
    /\ Walking
    /\ Top.phase = "retry"
    /\ ev' = [op |-> "return", folder |-> Top.folder_id, after |-> "retry"]
    /\ stack' = SetTop([Top EXCEPT !.phase = "body", !.nfiles = 1])
    /\ UNCHANGED <<pc, proj, req, download_stats, exitCode, n429, hist>>

\* the recursive call after a 429 returned: this call returns what it returned
ReturnRetry ==
    /\ Walking
    /\ Top.phase = "retry"
    /\ ev' = [op |-> "return", folder |-> Top.folder_id, after |-> "retry"]
    /\ stack' = Pop
    /\ closed' = closed \cup Closing
    /\ UNCHANGED <<pc, proj, req, download_stats, exitCode, n429, flagged, failed, listed,
                   got, calls, started>>

\* inside "for file in data['files']"
InFiles == Walking /\ Top.phase = "body" /\ Top.fi <= Top.nfiles

\* a walker whose two loops are not one after the other: a subfolder may have
\* its turn while files of the listing are still to come
InFoldersBeforeFiles ==
    /\ Walking
    /\ Top.phase = "body"
    /\ Top.si <= Len(Children(proj, Top.folder_id))

\* inside "for subfolder in data['folders']"
InFolders ==
    /\ Walking
    /\ Top.phase = "body"
    /\ Top.fi > Top.nfiles
    /\ Top.si <= Len(Children(proj, Top.folder_id))

\* one turn of "for file in data['files']" that calls nothing: a deleted
\* entry, one with no versions, one whose latest version has no URL
SkipFile ==
    /\ InFiles
    /\ \E file \in FileEntries(proj) :
        /\ ~DownloadUrl(file).has
        /\ ev' = [op |-> "skip_file", file |-> file, folder |-> Top.folder_id,
                  index |-> Top.fi]
    /\ stack' = SetTop([Top EXCEPT !.fi = @ + 1])
    /\ UNCHANGED <<pc, proj, req, download_stats, exitCode, n429, hist>>

\* one turn of "for file in data['files']" that calls download_file
DownloadEntry ==
    /\ InFiles
    /\ \E file \in FileEntries(proj), outcome \in DownloadOutcomes :
        /\ DownloadUrl(file).has
        /\ ev' = [op |-> "download", file |-> file, folder |-> Top.folder_id,
                  index |-> Top.fi, url |-> DownloadUrl(file).val,
                  path |-> LocalFilePath(Top.base_path, Top.folder_path, file.name),
                  base_path |-> Top.base_path, names |-> Top.names, outcome |-> outcome]
        /\ download_stats' = CountDownload(download_stats, DownloadFile(outcome))
    /\ stack' = SetTop([Top EXCEPT !.fi = @ + 1])
    /\ got' = [got EXCEPT ![Top.folder_id][Top.fi] = @ + 1]
    /\ calls' = calls + 1
    /\ UNCHANGED <<pc, proj, req, exitCode, n429, flagged, failed, listed, started, closed>>

\* what a listing's flags say of a subfolder entry, whatever the walker does
Flags(subfolder) ==
    IF subfolder.is_deleted \/ subfolder.is_recycle_bin THEN {subfolder.id} ELSE {}

\* one turn of "for subfolder in data['folders']" that ends in "continue"
SkipFolder ==
    /\ InFolders
    /\ \E subfolder \in FolderEntries(Children(proj, Top.folder_id)[Top.si]) :
        /\ FolderPruned(subfolder)
        /\ ev' = [op |-> "skip_folder", subfolder |-> subfolder, folder |-> Top.folder_id]
        /\ flagged' = flagged \cup Flags(subfolder)
    /\ stack' = SetTop([Top EXCEPT !.si = @ + 1])
    /\ UNCHANGED <<pc, proj, req, download_stats, exitCode, n429, failed, listed, got, calls,
                   started, closed>>

\* one turn of "for subfolder in data['folders']" that makes the local
\* directory, counts it and calls process_folder for the subfolder; an
\* OSError of os.makedirs is caught nowhere on the way up to __main__
EnterFolder ==
    /\ InFolders
    /\ \E subfolder \in FolderEntries(Children(proj, Top.folder_id)[Top.si]), made \in BOOLEAN :
        /\ ~FolderPruned(subfolder)
        /\ LET new_folder_path == NewFolderPath(Top.folder_path, subfolder.name)
               local_folder_path == LocalFolderPath(Top.base_path, new_folder_path)
           IN  /\ ev' = [op |-> "enter", subfolder |-> subfolder, folder |-> Top.folder_id,
                         made |-> made, folder_path |-> new_folder_path,
                         parent_path |-> Top.folder_path, path |-> local_folder_path,
                         base_path |-> Top.base_path, names |-> Top.names]
               /\ IF made
                  THEN /\ stack' = Append(SetTop([Top EXCEPT !.si = @ + 1]),
                                          Frame(subfolder.id, Top.base_path, new_folder_path,
                                                Append(Top.names, subfolder.name)))
                       /\ req' = FolderRequest(subfolder.id, proj)
                       /\ download_stats' = [download_stats EXCEPT !.folders_created = @ + 1]
                       /\ started' = started + 1
                       /\ UNCHANGED <<pc, exitCode>>
                  ELSE /\ Exit(1)
                       /\ UNCHANGED <<download_stats, started>>
        /\ flagged' = flagged \cup Flags(subfolder)
    /\ UNCHANGED <<proj, n429, failed, listed, got, calls, closed>>

\* both loops are over: process_folder returns
ReturnFolder ==
    /\ Walking
    /\ Top.phase = "body"
    /\ Top.fi > Top.nfiles
    /\ Top.si > Len(Children(proj, Top.folder_id))
    /\ ev' = [op |-> "return", folder |-> Top.folder_id, after |-> "body"]
    /\ stack' = Pop
    /\ closed' = closed \cup Closing
    /\ UNCHANGED <<pc, proj, req, download_stats, exitCode, n429, flagged, failed, listed,
                   got, calls, started>>

----------------------------------------------------------------------------

Next ==
    \/ GetOAuthToken
    \/ ApiRateLimited
    \/ ApiNothing
    \/ ApiOk
    \/ StartProject
    \/ FinishProject
    \/ FetchRateLimited
    \/ FetchFailed
    \/ FetchOk
    \/ ReturnRetry
    \/ SkipFile
    \/ DownloadEntry
    \/ SkipFolder
    \/ EnterFolder
    \/ ReturnFolder

Spec == Init /\ [][Next]_vars

\* the interpreter runs the next statement, and the remote answers every
\* request it is sent
FairSpec == Spec /\ WF_vars(Next)

----------------------------------------------------------------------------
(* The claims.                                                             *)

\* the frames of the stack
Frames == {stack[k] : k \in 1..Len(stack)}

\* calls of download_file made so far for the entries of folder id's listing
CallsIn(id) == {got[id][i] : i \in 1..MaxFiles}

\* C1: a file entry whose is_deleted flag is true is never passed to
\* download_file, whatever its versions and URLs are: every call of
\* download_file is for an entry that is not flagged.
DeletedNeverDownloaded == ev.op = "download" => ~ev.file.is_deleted

\* a deleted entry whose only version has a URL was read and skipped
DeletedWithUrlSkipped ==
    /\ ev.op = "skip_file"
    /\ ev.file.is_deleted
    /\ ev.file.file_versions = Some(<<[number |-> Some(1), url |-> Some(Url1)]>>)

\* folder id lies in the subtree of a folder a listing flagged
UnderFlagged(id) == Ancestors(id) \cap flagged # {}

\* C2: a subfolder entry flagged is_deleted or is_recycle_bin is pruned:
\* process_folder is never invoked with its id or with the id of a folder
\* below it (no frame, no listing, no failed fetch), no local directory is
\* made for it, no file below it is downloaded, and the step that reads the
\* entry leaves the counters and the depth of the recursion as they were.
PrunedNeverEntered ==
    /\ [](/\ \A f \in Frames : ~UnderFlagged(f.folder_id)
          /\ \A id \in FolderIds : UnderFlagged(id) => listed[id] = 0 /\ id \notin failed
          /\ ev.op = "download" => ~UnderFlagged(ev.folder)
          /\ ev.op = "enter" => ~ev.subfolder.is_deleted /\ ~ev.subfolder.is_recycle_bin)
    /\ [][(/\ InFolders
           /\ ev'.op \in {"skip_folder", "enter"}
           /\ (ev'.subfolder.is_deleted \/ ev'.subfolder.is_recycle_bin))
          => (download_stats' = download_stats /\ Len(stack') = Len(stack) /\ pc' = pc)]_vars

\* a flagged subfolder entry was read and skipped, and the
\* walk went on to list its sibling
FlaggedSkippedSiblingListed ==
    /\ 1 \in flagged
    /\ listed[1] = 0
    /\ listed[2] = 1
    /\ ev.op = "fetch_ok"

\* the number a version counts with: its number, 0 when it has none
NumberOf(v) == IF v.number.has THEN v.number.val ELSE 0

\* version i has the greatest number of vs and is the first that has it
FirstGreatest(vs, i) ==
    /\ \A j \in 1..Len(vs) : NumberOf(vs[j]) <= NumberOf(vs[i])
    /\ \A j \in 1..(i - 1) : NumberOf(vs[j]) < NumberOf(vs[i])

\* C3: the URL a file is downloaded from is the URL of the version with the
\* greatest number among the file's versions (no number counts as 0), the
\* first such in listing order when several share the greatest number.
LatestVersionDownloaded ==
    ev.op = "download" =>
        /\ ev.file.file_versions.has
        /\ \E i \in 1..Len(ev.file.file_versions.val) :
            /\ FirstGreatest(ev.file.file_versions.val, i)
            /\ ev.file.file_versions.val[i].url = Some(ev.url)

\* a file whose two versions share the greatest number and differ in URL
\* was downloaded
TieDownloaded ==
    /\ ev.op = "download"
    /\ Len(ev.file.file_versions.val) = 2
    /\ NumberOf(ev.file.file_versions.val[1]) = NumberOf(ev.file.file_versions.val[2])
    /\ ev.file.file_versions.val[1].url # ev.file.file_versions.val[2].url
    /\ ev.file.file_versions.val[2].url.has
    /\ ev.file.file_versions.val[2].url.val # <<>>


RECURSIVE Concat(_)
\* the names of ns one after the other, a separator before each
Concat(ns) == IF ns = <<>> THEN <<>> ELSE <<Sep>> \o Head(ns) \o Concat(Tail(ns))

\* C4: the local path handed to download_file is the project's base
\* directory, then the names of the ancestor folders from the root down,
\* then the file name; the relative path passed to a child is the parent's
\* relative path + the subfolder's name, just the name at the root.
PathMirrorsRemote ==
    /\ ev.op = "download" => ev.path = ev.base_path \o Concat(Append(ev.names, ev.file.name))
    /\ ev.op = "enter" =>
        ev.folder_path = IF ev.parent_path = <<>> THEN ev.subfolder.name
                         ELSE ev.parent_path \o <<Sep>> \o ev.subfolder.name

\* name does not start with the separator
Plain(name) == name = <<>> \/ Head(name) # Sep

\* C4, for the names os.path.join does not treat as absolute: with no
\* separator at the head of the file's name and of its ancestors' names the
\* path is base directory + folder names + file name.
PathOfPlainNames ==
    /\ (ev.op = "download" /\ Plain(ev.file.name)
            /\ \A k \in 1..Len(ev.names) : Plain(ev.names[k]))
        => ev.path = ev.base_path \o Concat(Append(ev.names, ev.file.name))
    /\ (ev.op = "enter" /\ Plain(ev.subfolder.name))
        => ev.folder_path = IF ev.parent_path = <<>> THEN ev.subfolder.name
                            ELSE ev.parent_path \o <<Sep>> \o ev.subfolder.name

\* a file two folders below the root was downloaded
DeepFileDownloaded == ev.op = "download" /\ Len(ev.names) = 2

RateLimited == ev.op \in {"api_429", "fetch_429"}

\* C5: a 429 to api_request or to the listing fetch of process_folder is
\* followed by one wait of the Retry-After duration (60 seconds without the
\* header) and one re-issue of the identical request: after the step that
\* receives the 429 the wait has been made, the request outstanding is the
\* one that was answered, the call for the same folder is at its fetch, and
\* the run goes on.
RateLimitRetried ==
    RateLimited =>
        /\ ev.slept.has
        /\ ~ev.header.has => ev.slept.val = DefaultRetryAfter
        /\ req = ev.request
        /\ pc # "exit"
        /\ ev.op = "fetch_429" =>
            /\ stack # <<>>
            /\ Top.phase = "fetch"
            /\ Top.folder_id = ev.folder

\* the header is absent or delay-seconds: decimal digits only
DelaySeconds(h) == ~h.has \/ (h.val # <<>> /\ \A k \in 1..Len(h.val) : IsDigit(h.val[k]))

\* C5, for a Retry-After that is absent or delay-seconds: the wait is of
\* that many seconds (60 without the header) and the identical request is
\* re-issued, for the same folder and paths.
RetryOnDelaySeconds ==
    (RateLimited /\ DelaySeconds(ev.header)) =>
        /\ ev.slept = (IF ev.header.has THEN PyInt(ev.header.val) ELSE Some(DefaultRetryAfter))
        /\ req = ev.request
        /\ pc # "exit"
        /\ ev.op = "fetch_429" =>
            /\ Len(stack) >= 2
            /\ Top.phase = "fetch"
            /\ Top.folder_id = ev.folder
            /\ Top.folder_path = stack[Len(stack) - 1].folder_path
            /\ Top.base_path = stack[Len(stack) - 1].base_path
            /\ stack[Len(stack) - 1].phase = "retry"
            /\ stack[Len(stack) - 1].folder_id = ev.folder

\* a second 429 in a row was waited for and retried
SecondRetry == ev.op = "fetch_429" /\ ev.slept.has /\ Len(stack) >= 3 /\ n429 = 2

\* the root and the folders from it down to id
Lineage(id) == {RootId} \cup Ancestors(id)

\* the listing fetch of id, or of a folder above it, failed
UnderFailed(id) == Lineage(id) \cap failed # {}

\* C6: when the listing fetch of a folder fails with a RequestException
\* other than a 429, process_folder returns for that folder: no file in it
\* is downloaded, no folder below it is visited, the run is not aborted,
\* and its caller goes on from where it was, with the counters as they
\* were: the remaining siblings are processed as after a normal return.
FetchFailureAbandonsSubtree ==
    /\ [](/\ \A f \in Frames :
                /\ f.phase # "retry" => ~UnderFailed(f.folder_id)
                /\ ~UnderFailed(f.folder_id) \/ f.folder_id \in failed
          /\ \A id \in FolderIds : UnderFailed(id) => listed[id] = 0
          /\ ev.op = "download" => ~UnderFailed(ev.folder)
          /\ ev.op = "fetch_error" => pc = "walk")
    /\ [][(Fetching /\ ev'.op = "fetch_error")
          => (stack' = Pop /\ download_stats' = download_stats /\ pc' = pc)]_vars

\* the fetch of folder 1 failed and a file of its sibling was downloaded
SiblingOfFailedDownloaded == 1 \in failed /\ ev.op = "download" /\ ev.folder = 2

\* the entry has no version, or the first of its greatest-numbered versions
\* has no URL or an empty one
Unresolvable(file) ==
    \/ ~file.file_versions.has
    \/ file.file_versions.val = <<>>
    \/ \E i \in 1..Len(file.file_versions.val) :
        /\ FirstGreatest(file.file_versions.val, i)
        /\ file.file_versions.val[i].url \in {None, Some(<<>>)}

\* C7: a non-deleted file entry whose version list is missing or empty, or
\* whose greatest-numbered version has no URL or an empty one, is skipped:
\* download_file is not called for it (no older version is used instead),
\* files_downloaded and errors stay as they were, and the loop goes on to
\* the next entry of the same listing.
UnresolvableSkipped ==
    /\ [](ev.op = "download" => ~Unresolvable(ev.file))
    /\ [][(InFiles /\ ev'.op \in {"skip_file", "download"}
                /\ ~ev'.file.is_deleted /\ Unresolvable(ev'.file))
          => (/\ ev'.op = "skip_file"
              /\ download_stats' = download_stats
              /\ stack' = SetTop([Top EXCEPT !.fi = @ + 1])
              /\ pc' = pc)]_vars

\* an entry whose older version has a URL and whose latest has none was
\* skipped in a folder that has a subfolder left to walk
LatestWithoutUrlSkipped ==
    /\ ev.op = "skip_file"
    /\ ~ev.file.is_deleted
    /\ ev.file.file_versions =
        Some(<<[number |-> Some(1), url |-> Some(Url1)], [number |-> Some(2), url |-> None]>>)
    /\ InFolders

\* C8: a failed download (a non-success status of the download request, a
\* 429 among them, a transport error, a local write error) adds one to
\* errors, leaves files_downloaded and folders_created as they were, is not
\* retried, and does not end the folder: the loop goes on to the next entry.
DownloadFailureCounted ==
    [][(InFiles /\ ev'.op = "download" /\ ev'.outcome # "ok")
       => (/\ download_stats' = [download_stats EXCEPT !.errors = @ + 1]
           /\ stack' = SetTop([Top EXCEPT !.fi = @ + 1])
           /\ req' = req
           /\ pc' = pc)]_vars

\* a download answered 429 failed and the next file of the folder was
\* downloaded
FileAfterFailureDownloaded ==
    /\ ev.op = "download"
    /\ ev.index = 2
    /\ ev.outcome = "ok"
    /\ download_stats = [files_downloaded |-> 1, folders_created |-> 0, errors |-> 1]

\* process_folder(None, ...) has returned to download_project_documents
Returned == pc = "walk" /\ stack = <<>>

\* C9: process_folder invoked on the root eventually returns, and a call
\* that has its listing returns only when both of its loops are over: every
\* file entry and every subfolder entry of the listing has had its turn.
WalkReturns ==
    /\ Walking ~> Returned
    /\ [][(Walking /\ Top.phase = "body" /\ pc' = "walk" /\ Len(stack') < Len(stack))
          => (Top.fi > Top.nfiles /\ Top.si > Len(Children(proj, Top.folder_id)))]_vars

\* what ev.op is after a step of process_folder
WalkerOps ==
    {"fetch_429", "fetch_error", "fetch_ok", "return", "skip_file", "download",
     "skip_folder", "enter"}

\* C10: whatever the remote answers to a listing or download request and
\* whatever the local filesystem does, process_folder returns to its
\* caller: no step of process_folder ends the run.
WalkerNeverEndsRun == pc = "exit" => ev.op \notin WalkerOps

\* C11: a 429 at the folder-listing fetch is received before any entry of the
\* folder has been handed to download_file, and the retry is the only call
\* that processes the folder's listing: at a 429 of a listing fetch no file of
\* that folder has been downloaded and no listing of it has arrived, and
\* download_file is never called a second time for an entry of a listing.
RetryDownloadsOnce ==
    /\ [](ev.op = "fetch_429" => CallsIn(ev.folder) = {0} /\ listed[ev.folder] = 0)
    /\ [](\A id \in FolderIds : CallsIn(id) \subseteq {0, 1})
    /\ [][ev'.op = "download" => got[ev'.folder][ev'.index] = 0]_vars

\* the root's listing fetch was answered 429, the retry listed the root and
\* both of its files were downloaded; the rate-limited call is still waiting
RetriedFolderDownloaded ==
    /\ Len(stack) >= 2
    /\ stack[1].phase = "retry"
    /\ stack[2].folder_id = RootId
    /\ got[RootId][1] = 1
    /\ got[RootId][2] = 1

\* C11 as the specification words it: when the retry of a rate-limited
\* folder is over and files of the folder were downloaded, a file of the folder
\* has been downloaded more than once.
RetryDownloadsAgain ==
    (ev.op = "return" /\ ev.after = "retry" /\ CallsIn(ev.folder) # {0})
        => \E n \in CallsIn(ev.folder) : n > 1

\* a call that is waiting for a call it made to return: for its retry, or for
\* the subfolder it entered last
Blocked(f) == f.phase = "retry" \/ (f.phase = "body" /\ f.fi > f.nfiles /\ f.si > 1)

\* the folder the call above frame f on the stack must be for
Callee(f) ==
    IF f.phase = "retry" THEN f.folder_id ELSE Children(proj, f.folder_id)[f.si - 1]

\* the subfolders listed before id in the listing that holds id
EarlierSiblings(id) ==
    LET kids == Children(proj, Parent(id))
    IN  {kids[j] : j \in {i \in 1..Len(kids) : \E k \in 1..Len(kids) : kids[k] = id /\ i < k}}

\* C12: the walk is sequential and depth-first. Every call of process_folder
\* but the innermost is waiting for the call it made, and every step is a step
\* of the innermost call; the only request in flight is the listing fetch of
\* the innermost call; a call gives its files their turns in listing order
\* and reaches its subfolders only when all of them have had theirs; and a
\* subfolder's directory is created, and its listing fetched, only when every
\* subfolder listed before it is over with its whole subtree, or was pruned.
SequentialDepthFirst ==
    /\ [](\A k \in 1..(Len(stack) - 1) :
            Blocked(stack[k]) /\ stack[k + 1].folder_id = Callee(stack[k]))
    /\ []((pc = "walk" /\ req # NoRequest)
            => (Fetching /\ req = FolderRequest(Top.folder_id, proj)))
    /\ [](\A f \in Frames :
            /\ f.si > 1 => f.fi > f.nfiles
            /\ f.phase = "fetch" => (f.fi = 1 /\ f.si = 1)
            /\ Lineage(f.folder_id) \cap closed = {})
    /\ []((ev.op = "enter" /\ ev.made)
            => \A s \in EarlierSiblings(ev.subfolder.id) :
                /\ s \in closed \cup flagged
                /\ \A f \in Frames : s \notin Ancestors(f.folder_id))
    /\ [][ev'.op \in WalkerOps
            => (Walking /\ ev'.folder = Top.folder_id /\ ev'.folder \notin closed)]_vars
    /\ [][ev'.op \in {"download", "skip_file"}
            => /\ ev'.index = Top.fi
               /\ Top.si = 1
               /\ stack'[Len(stack)].fi = Top.fi + 1
               /\ \A i \in (Top.fi + 1)..MaxFiles : got[Top.folder_id][i] = 0]_vars

\* folder 1 and folder 3 under it are over, each with its file downloaded,
\* and a file of folder 2, listed after folder 1, has now been downloaded
SecondSiblingAfterFirstSubtree ==
    /\ ev.op = "download"
    /\ ev.folder = 2
    /\ {1, 3} \subseteq closed
    /\ got[1][1] = 1
    /\ got[3][1] = 1
    /\ got[RootId][MaxFiles] = 1

\* the subfolders process_folder was called for so far in this project
Entered == (closed \cup {f.folder_id : f \in Frames}) \ {RootId}

\* C13: download_project_documents starts every project with the three
\* counters at zero, and during the project's walk files_downloaded + errors
\* is the number of calls of download_file made, and folders_created is the
\* number of subfolder entries process_folder was called for, each folder
\* counted once; a listing fetch that fails or is answered 429 leaves the
\* counters as they were.
CountersTrack ==
    /\ [](ev.op = "start" => download_stats = ZeroStats)
    /\ [](pc = "walk"
            => /\ download_stats.files_downloaded + download_stats.errors = calls
               /\ download_stats.folders_created = started
               /\ download_stats.folders_created = Cardinality(Entered))
    /\ [][ev'.op \in {"fetch_429", "fetch_error"} => download_stats' = download_stats]_vars

\* folder 1 was entered and counted, its listing fetch was answered 429 and
\* the retry has now failed, after one good and one failed download in the root
CountedOnceFetchRetriedAndFailed ==
    /\ ev.op = "fetch_error"
    /\ ev.folder = 1
    /\ Len(stack) = 2
    /\ stack[2].phase = "retry"
    /\ download_stats = [files_downloaded |-> 1, folders_created |-> 1, errors |-> 1]

============================================================================
